---------------------------- MODULE Spec2Model ----------------------------
(***************************************************************************)
(* Model of gear_generator_py: the bevel section stack builder and bevel   *)
(* meshing placement of bevel_gear_generator.py, and the spur gear         *)
(* construction and meshing placement of gear_generator.py.                *)
(*                                                                         *)
(* Numbers.  Python floats are modelled as exact rationals <<n, d>> in     *)
(* lowest terms with d > 0; rounding is not modelled.  Quantities that the *)
(* code multiplies by np.pi (tooth widths, angles in radians) are kept as  *)
(* the rational coefficient of pi.  Cone angles are drawn from angles with *)
(* a rational sine (see sin).                                              *)
(***************************************************************************)
EXTENDS Integers, Sequences, FiniteSets, TLC

(***************************************************************************)
(* Rational arithmetic.                                                    *)
(***************************************************************************)
Abs(n) == IF n < 0 THEN -n ELSE n

RECURSIVE GCD(_, _)
GCD(a, b) == IF b = 0 THEN a ELSE GCD(b, a % b)

Rat(n, d) ==
    LET g == GCD(Abs(n), Abs(d))
        s == IF d < 0 THEN -1 ELSE 1
    IN  << (s * n) \div g, (s * d) \div g >>

R(n) == << n, 1 >>
Zero == R(0)
One == R(1)

RAdd(a, b) == Rat(a[1] * b[2] + b[1] * a[2], a[2] * b[2])
RSub(a, b) == Rat(a[1] * b[2] - b[1] * a[2], a[2] * b[2])
RMul(a, b) == Rat(a[1] * b[1], a[2] * b[2])
\* Only used with b # Zero: every division of the code is guarded by the
\* ZeroDivisionError it raises.
RDiv(a, b) == Rat(a[1] * b[2], a[2] * b[1])
RLess(a, b) == a[1] * b[2] < b[1] * a[2]
RLeq(a, b) == a[1] * b[2] <= b[1] * a[2]

(***************************************************************************)
(* math.sin(math.radians(deg)) for the angles of the model.  37 and 53     *)
(* stand for the complementary angles asin(3/5) = 36.87 and asin(4/5) =    *)
(* 53.13 degrees, 127 and 143 for their supplements; the other entries are *)
(* the exact degrees.                                                      *)
(***************************************************************************)
sin(deg) ==
    CASE deg = 0 -> Zero
      [] deg = 30 -> Rat(1, 2)
      [] deg = 37 -> Rat(3, 5)
      [] deg = 53 -> Rat(4, 5)
      [] deg = 90 -> One
      [] deg = 127 -> Rat(4, 5)
      [] deg = 143 -> Rat(3, 5)
      [] deg = 150 -> Rat(1, 2)
      [] deg = -30 -> Rat(-1, 2)
      [] deg = -90 -> R(-1)

\* gear.deg2rad, in units of pi.
deg2rad(deg) == Rat(deg, 180)

(***************************************************************************)
(* gear.generate of lib/gear-profile-generator: the involute profile       *)
(* generator.  It returns (polygon, pitch radius) or raises.  The polygon  *)
(* is a function of the arguments alone and is represented by them.        *)
(* tooth_width and pressure_angle are in units of pi.                      *)
(***************************************************************************)
generate(teeth_count, tooth_width, pressure_angle, backlash, frame_count) ==
    IF teeth_count < 1 \/ RLeq(tooth_width, Zero) \/ frame_count < 1
    THEN [error |-> "InvalidParameter"]
    ELSE [error |-> "none",
          gear_poly |-> [teeth_count |-> teeth_count,
                         tooth_width |-> tooth_width,
                         pressure_angle |-> pressure_angle,
                         backlash |-> backlash,
                         frame_count |-> frame_count],
          pitch_radius |-> RDiv(RMul(tooth_width, R(teeth_count)), R(2))]

(***************************************************************************)
(* BevelGear.  A gear object is a record of the attributes __init__ sets.  *)
(***************************************************************************)
\* scale > 0.1
MinScale == Rat(1, 10)

\* The pitch diameter taken for the radius.
BevelPitchDiameter(teeth_number, module) == RMul(R(teeth_number), module)

\* self.pitch_radius = (teeth_number * module) / 2
BevelPitchRadius(teeth_number, module) ==
    RDiv(RMul(R(teeth_number), module), R(2))

\* The pitch radius moved outwards by the profile shift.
BevelSelfShifted(a) ==
    [module |-> R(a.module),
     teeth_number |-> a.teeth_number,
     pressure_angle |-> a.pressure_angle,
     cone_angle |-> a.cone_angle,
     face_width |-> R(a.face_width),
     clearance |-> a.clearance,
     backlash |-> R(a.backlash),
     profile_shift |-> a.profile_shift,
     frame_count |-> a.frame_count,
     tooth_width |-> R(a.module),
     pitch_radius |-> RAdd(BevelPitchRadius(a.teeth_number, R(a.module)),
                           RMul(R(a.profile_shift), R(a.module)))]

\* The attributes set before self.sections (lines 54-68).
BevelSelf(a) ==
    [module |-> R(a.module),
     teeth_number |-> a.teeth_number,
     pressure_angle |-> a.pressure_angle,
     cone_angle |-> a.cone_angle,
     face_width |-> R(a.face_width),
     clearance |-> a.clearance,
     backlash |-> R(a.backlash),
     profile_shift |-> a.profile_shift,
     frame_count |-> a.frame_count,
     tooth_width |-> R(a.module),
     pitch_radius |-> BevelPitchRadius(a.teeth_number, R(a.module))]

\* t = i / num_sections: the small end is never reached.
PositionShort(i, num_sections) == RDiv(R(i), R(num_sections))

\* t = i / (num_sections - 1)
Position(i, num_sections) == RDiv(R(i), R(num_sections - 1))

\* The sections stacked away from the apex.
SectionDistanceAway(apex_distance, t, face_width) ==
    RAdd(apex_distance, RMul(t, face_width))

\* section_distance = apex_distance - t * self.face_width
SectionDistance(apex_distance, t, face_width) ==
    RSub(apex_distance, RMul(t, face_width))

\* scale = section_distance / apex_distance
Scale(section_distance, apex_distance) ==
    RDiv(section_distance, apex_distance)

\* if scale >= 0.1
RetainedAtThreshold(scale) == RLeq(MinScale, scale)

\* if scale > 0.1
Retained(scale) == RLess(MinScale, scale)

\* z = t * self.face_width
AxialOffset(t, face_width) == RMul(t, face_width)

\* Every section cut with the teeth of the large end.
EffectiveModuleUnscaled(module, scale) == module

\* effective_module = self.module * scale
EffectiveModule(module, scale) == RMul(module, scale)

\* effective_radius = self.pitch_radius * scale
EffectiveRadius(pitch_radius, scale) == RMul(pitch_radius, scale)

\* The loop of _generate_sections from index i on; secs are the sections
\* appended so far.  A section's 'points' is the ring of the polygon.
RECURSIVE SectionLoop(_, _, _, _, _)
SectionLoop(self, apex_distance, num_sections, i, secs) ==
    IF i >= num_sections THEN [error |-> "none", sections |-> secs]
    ELSE IF num_sections - 1 = 0 \/ apex_distance = Zero
    THEN [error |-> "ZeroDivisionError", sections |-> secs]
    ELSE
      LET t == Position(i, num_sections)
          scale == Scale(SectionDistance(apex_distance, t, self.face_width),
                         apex_distance)
          effective_module == EffectiveModule(self.module, scale)
          effective_radius == EffectiveRadius(self.pitch_radius, scale)
          g == generate(self.teeth_number, effective_module,
                        deg2rad(self.pressure_angle), self.backlash,
                        self.frame_count)
      IN
      IF ~Retained(scale)
      THEN SectionLoop(self, apex_distance, num_sections, i + 1, secs)
      ELSE IF g.error # "none"
      THEN [error |-> g.error, sections |-> secs]
      ELSE SectionLoop(self, apex_distance, num_sections, i + 1,
             Append(secs, [points |-> g.gear_poly,
                           z |-> AxialOffset(t, self.face_width),
                           scale |-> scale,
                           radius |-> effective_radius]))

\* apex_distance = self.pitch_radius / math.sin(math.radians(self.cone_angle))
ApexDistance(pitch_radius, cone_angle) == RDiv(pitch_radius, sin(cone_angle))

\* BevelGear._generate_sections(self, num_sections)
generate_sections(self, num_sections) ==
    IF sin(self.cone_angle) = Zero
    THEN [error |-> "ZeroDivisionError", sections |-> << >>]
    ELSE SectionLoop(self, ApexDistance(self.pitch_radius, self.cone_angle),
                     num_sections, 0, << >>)


(***************************************************************************)
(* numpy arrays.  An array of points is the image of a polygon ring under  *)
(* what the code has done to it: lifted to 3D with a z column, rotated,    *)
(* shifted.  rot is an integer 3x3 matrix, shift a vector of rationals.    *)
(***************************************************************************)
Identity == << <<1, 0, 0>>, <<0, 1, 0>>, <<0, 0, 1>> >>
NoShift == << Zero, Zero, Zero >>

\* Rotation by 90 degrees about the Y axis: (x, y, z) -> (z, y, -x).
\* R.from_euler('y', 90, degrees=True) and
\* rg.Transform.Rotation(math.pi/2, rg.Vector3d(0, 1, 0), origin).
RotY90 == << <<0, 0, 1>>, <<0, 1, 0>>, <<-1, 0, 0>> >>

MatVec(M, v) ==
    [i \in 1..3 |->
        RAdd(RAdd(RMul(R(M[i][1]), v[1]), RMul(R(M[i][2]), v[2])),
             RMul(R(M[i][3]), v[3]))]

MatMul(M, N) ==
    [i \in 1..3 |-> [j \in 1..3 |->
        M[i][1] * N[1][j] + M[i][2] * N[2][j] + M[i][3] * N[3][j]]]

VecAdd(v, w) == [i \in 1..3 |-> RAdd(v[i], w[i])]

\* np.array(gear_poly.exterior.coords)
ExteriorCoords(gear_poly) ==
    [ring |-> gear_poly, cols |-> 2, z |-> Zero, rot |-> Identity,
     shift |-> NoShift]

\* np.column_stack((points_2d, np.full(len(points_2d), z))): a new array
column_stack(points_2d, z) == [points_2d EXCEPT !.cols = 3, !.z = z]

\* rot.apply(section): a new array
rot_apply(M, section) ==
    [section EXCEPT !.rot = MatMul(M, section.rot),
                    !.shift = MatVec(M, section.shift)]

\* arr[:, 0] += dx, in place
AddX(arr, dx) == [arr EXCEPT !.shift[1] = RAdd(arr.shift[1], dx)]

\* The image of the point p of the ring's frame in the array's frame.
Image(arr, p) == VecAdd(MatVec(arr.rot, p), arr.shift)

(***************************************************************************)
(* State.                                                                  *)
(***************************************************************************)
VARIABLES
    entry,           \* what this run of the program is: see Entries
    heap,            \* the numpy arrays alive, by array id (1..Len(heap))
    obj,             \* the BevelGear variables gear1, gear2
    ret,             \* the result of a direct _generate_sections call
    calls,           \* the lists returned by get_3d_points, in call order
    plots,           \* the lines visualize_bevel_gears has plotted
    RHINO_AVAILABLE, \* set at import (lines 17-25)
    exported,        \* the outcome of export_bevel_gears
    spur,            \* an InvoluteGear variable
    spur2,           \* a second InvoluteGear variable
    svg,             \* the outcome of export_gears_only
    fig              \* the outcome of the interactive path of main

vars == << entry, heap, obj, ret, calls, plots, RHINO_AVAILABLE, exported,
           spur, spur2, svg, fig >>

Unbound == [state |-> "unbound"]

\* def _generate_sections(self, num_sections=10)
NumSectionsDefault == 10

Slots == {1, 2}

\* BevelGear(**a) with the arrays of heap h alive: the outcome, and the
\* heap with the arrays of the new gear's sections.
NewGear(h, a) ==
    LET self == BevelSelf(a)
        r == generate_sections(self, NumSectionsDefault)
        n == Len(r.sections)
    IN  IF r.error # "none"
        THEN [state |-> "raised", args |-> a, error |-> r.error,
              computed |-> n, heap |-> h]
        ELSE [state |-> "gear", args |-> a,
              self |-> [module |-> self.module,
                        teeth_number |-> self.teeth_number,
                        pressure_angle |-> self.pressure_angle,
                        cone_angle |-> self.cone_angle,
                        face_width |-> self.face_width,
                        clearance |-> self.clearance,
                        backlash |-> self.backlash,
                        profile_shift |-> self.profile_shift,
                        frame_count |-> self.frame_count,
                        tooth_width |-> self.tooth_width,
                        pitch_radius |-> self.pitch_radius,
                        sections |-> [k \in 1..n |->
                            [points |-> Len(h) + k,
                             z |-> r.sections[k].z,
                             scale |-> r.sections[k].scale,
                             radius |-> r.sections[k].radius]]],
              heap |-> h \o [k \in 1..n |->
                                ExteriorCoords(r.sections[k].points)]]

\* What a variable holds after  v = BevelGear(**a).
Binding(g) ==
    IF g.state = "raised"
    THEN [state |-> "raised", args |-> g.args, error |-> g.error,
          computed |-> g.computed]
    ELSE [state |-> "gear", args |-> g.args, self |-> g.self]

\* BevelGear.get_3d_points(self): the new arrays, in section order
get_3d_points(h, self) ==
    [k \in 1..Len(self.sections) |->
        column_stack(h[self.sections[k].points], self.sections[k].z)]

Ids(h, n) == [k \in 1..n |-> Len(h) + k]

(***************************************************************************)
(* Bounds and inputs.                                                      *)
(***************************************************************************)
MaxCalls == 2        \* get_3d_points calls
MaxFigures == 1      \* visualize_bevel_gears calls
MaxSections == 3     \* num_sections of a direct _generate_sections call

Secondary ==
    LET d == [pressure_angle |-> 20, clearance |-> Rat(1, 4), backlash |-> 0,
              profile_shift |-> 0, frame_count |-> 16]
    IN  {d,
         [d EXCEPT !.pressure_angle = 0],
         [d EXCEPT !.pressure_angle = 90],
         [d EXCEPT !.backlash = -1],
         [d EXCEPT !.backlash = 1],
         [d EXCEPT !.frame_count = 0],
         [d EXCEPT !.clearance = Rat(1, 2)],
         [d EXCEPT !.profile_shift = 1]}

BevelArgs(modules, teeth, cones, widths, secondary) ==
    {[module |-> m, teeth_number |-> n, cone_angle |-> c, face_width |-> w,
      pressure_angle |-> x.pressure_angle, clearance |-> x.clearance,
      backlash |-> x.backlash, profile_shift |-> x.profile_shift,
      frame_count |-> x.frame_count] :
        m \in modules, n \in teeth, c \in cones, w \in widths,
        x \in secondary}

\* The arguments of a single construction: valid and invalid ones, face
\* widths below, at and above the apex distance.
CtorArgs ==
    BevelArgs({-1, 0, 1, 5}, {0, 4, 20}, {0, 30, 53, 90, 150, -30},
              {-1, 0, 1, 9, 10, 15}, Secondary)

(***************************************************************************)
(* Operations of bevel_gear_generator.py.                                  *)
(***************************************************************************)
\* The section list is one list shared by the class and never cleared: a
\* gear's sections follow those of the gear constructed before it.
NewBevelGearSharedList(s, a) ==
    /\ obj[s] = Unbound
    /\ LET g == NewGear(heap, a)
           earlier == {x \in Slots : obj[x].state = "gear"}
           shared == IF earlier = {} THEN << >>
                     ELSE obj[CHOOSE x \in earlier : TRUE].self.sections
       IN  /\ obj' = [obj EXCEPT ![s] =
                         IF g.state = "gear"
                         THEN [Binding(g) EXCEPT
                                  !.self.sections = shared \o @]
                         ELSE Binding(g)]
           /\ heap' = g.heap
    /\ UNCHANGED << entry, ret, calls, plots, RHINO_AVAILABLE, exported, spur,
                    spur2, svg, fig >>

\* gear<s> = BevelGear(**a)
NewBevelGear(s, a) ==
    /\ obj[s] = Unbound
    /\ LET g == NewGear(heap, a)
       IN  /\ obj' = [obj EXCEPT ![s] = Binding(g)]
           /\ heap' = g.heap
    /\ UNCHANGED << entry, ret, calls, plots, RHINO_AVAILABLE, exported, spur,
                    spur2, svg, fig >>

\* ret = gear<s>._generate_sections(n)
GenerateSections(s, n) ==
    /\ obj[s].state = "gear"
    /\ ret = Unbound
    /\ LET r == generate_sections(obj[s].self, n)
           k == Len(r.sections)
       IN  IF r.error # "none"
           THEN /\ ret' = [state |-> "raised", gear |-> s,
                           num_sections |-> n, error |-> r.error,
                           computed |-> k]
                /\ heap' = heap
           ELSE /\ ret' = [state |-> "returned", gear |-> s,
                           num_sections |-> n,
                           sections |-> [j \in 1..k |->
                               [points |-> Len(heap) + j,
                                z |-> r.sections[j].z,
                                scale |-> r.sections[j].scale,
                                radius |-> r.sections[j].radius]]]
                /\ heap' = heap \o [j \in 1..k |->
                                      ExteriorCoords(r.sections[j].points)]
    /\ UNCHANGED << entry, obj, calls, plots, RHINO_AVAILABLE, exported, spur,
                    spur2, svg, fig >>

\* get_3d_points that keeps each 3D array as the section's 'points'.
GetPointsKept(s) ==
    /\ obj[s].state = "gear"
    /\ Len(calls) < MaxCalls
    /\ LET all_points == get_3d_points(heap, obj[s].self)
       IN  /\ heap' = heap \o all_points
           /\ calls' = Append(calls, [gear |-> s,
                                      arrays |-> Ids(heap, Len(all_points))])
           /\ obj' = [obj EXCEPT ![s].self.sections =
                          [k \in 1..Len(all_points) |->
                              [@[k] EXCEPT !.points = Len(heap) + k]]]
    /\ UNCHANGED << entry, ret, plots, RHINO_AVAILABLE, exported, spur,
                    spur2, svg, fig >>

\* gear<s>.get_3d_points()
GetPoints(s) ==
    /\ obj[s].state = "gear"
    /\ Len(calls) < MaxCalls
    /\ LET all_points == get_3d_points(heap, obj[s].self)
       IN  /\ heap' = heap \o all_points
           /\ calls' = Append(calls, [gear |-> s,
                                      arrays |-> Ids(heap, Len(all_points))])
    /\ UNCHANGED << entry, obj, ret, plots, RHINO_AVAILABLE, exported, spur,
                    spur2, svg, fig >>

\* visualize_bevel_gears(gear<s1>, gear<s2>)
Visualize(s1, s2) ==
    /\ obj[s1].state = "gear"
    /\ obj[s2].state = "gear"
    /\ Len(plots) < MaxFigures
    /\ LET gear1 == obj[s1].self
           gear2 == obj[s2].self
           sections1 == get_3d_points(heap, gear1)
           apex_distance == ApexDistance(gear1.pitch_radius, gear1.cone_angle)
           \* get_3d_points reads the arrays of gear2's sections, which are
           \* in heap already
           sections2 == get_3d_points(heap, gear2)
           \* rotated = rot.apply(section) is a new array, and
           \* rotated[:, 0] += apex_distance changes that array in place
           rotated == [k \in 1..Len(sections2) |->
                          AddX(rot_apply(RotY90, sections2[k]),
                               apex_distance)]
       IN  /\ heap' = heap \o sections1 \o sections2 \o rotated
           /\ plots' = Append(plots,
                  [gear1 |-> s1, gear2 |-> s2,
                   blue |-> sections1, red |-> rotated])
    /\ UNCHANGED << entry, obj, ret, calls, RHINO_AVAILABLE, exported, spur,
                    spur2, svg, fig >>

None == [state |-> "None"]

\* create_rhino_bevel_gear(gear, hole_radius).  lofted: rg.Brep.CreateFromLoft
\* returned a brep.  A brep carries the transforms applied to it.
create_rhino_bevel_gear(h, gear, hole_radius, lofted) ==
    LET sections == get_3d_points(h, gear)
    IN  IF Len(sections) >= 2 /\ lofted
        THEN [state |-> "brep", curves |-> sections,
              hole_radius |-> hole_radius, height |-> gear.face_width,
              rot |-> Identity, shift |-> NoShift]
        ELSE None

\* brep.Transform(rg.Transform.Rotation(angle of M, axis of M, origin))
TransformRotation(brep, M) ==
    [brep EXCEPT !.rot = MatMul(M, brep.rot), !.shift = MatVec(M, brep.shift)]

\* brep.Transform(rg.Transform.Translation(x, y, z))
TransformTranslation(brep, v) == [brep EXCEPT !.shift = VecAdd(brep.shift, v)]

\* The BevelGear arguments export_bevel_gears passes for gear1 and gear2.
ExportGearArgs(a, teeth, cone) ==
    [module |-> a.module, teeth_number |-> teeth,
     pressure_angle |-> a.pressure_angle, cone_angle |-> cone,
     face_width |-> a.face_width, clearance |-> a.clearance,
     backlash |-> a.backlash, profile_shift |-> 0,
     frame_count |-> a.frame_count]

\* Lines 234-245: the second gear's brep is rotated, then translated by
\* the first gear's apex distance along x.
PositionSecondGear(brep2, gear1) ==
    IF brep2 # None
    THEN TransformTranslation(
             TransformRotation(brep2, RotY90),
             << ApexDistance(gear1.pitch_radius, gear1.cone_angle),
                Zero, Zero >>)
    ELSE brep2

\* Lines 247-267: the breps are added to a new file, which is written.
\* Line 255 or 262 names System, which the module never imports: with a
\* brep to add the function ends in a NameError.
WriteFile(a, gear1, gear2, brep1, brep2) ==
    LET named == brep1 # None \/ brep2 # None
    IN  [state |-> IF named THEN "raised" ELSE "returned",
         args |-> a,
         error |-> IF named THEN "NameError" ELSE "none",
         gear1 |-> gear1, gear2 |-> gear2,
         brep1 |-> brep1, brep2 |-> brep2,
         written |-> IF named THEN << >> ELSE << a.filename >>]

\* Lines 230-267, with both gears constructed.
ExportBreps(h, a, gear1, gear2, lofted1, lofted2) ==
    WriteFile(a, gear1, gear2,
        create_rhino_bevel_gear(h, gear1, RMul(R(a.module), R(2)), lofted1),
        PositionSecondGear(
            create_rhino_bevel_gear(h, gear2, RMul(R(a.module), R(2)),
                                    lofted2),
            gear1))

\* Lines 218-267, with the first gear constructed.
ExportSecond(h, a, gear1, lofted1, lofted2) ==
    LET g2 == NewGear(h, ExportGearArgs(a, a.teeth2, 90 - a.cone_angle))
    IN  IF g2.state = "raised"
        THEN [state |-> "raised", args |-> a, error |-> g2.error,
              brep1 |-> None, brep2 |-> None, written |-> << >>]
        ELSE ExportBreps(g2.heap, a, gear1, g2.self, lofted1, lofted2)

\* The body of export_bevel_gears once rhinoinside is there (lines 206-267).
ExportBody(h, a, lofted1, lofted2) ==
    LET g1 == NewGear(h, ExportGearArgs(a, a.teeth1, a.cone_angle))
    IN  IF g1.state = "raised"
        THEN [state |-> "raised", args |-> a, error |-> g1.error,
              brep1 |-> None, brep2 |-> None, written |-> << >>]
        ELSE ExportSecond(g1.heap, a, g1.self, lofted1, lofted2)

\* export_bevel_gears(**a)
ExportBevelGears(a, lofted1, lofted2) ==
    /\ exported = Unbound
    /\ exported' = IF ~RHINO_AVAILABLE
                   THEN [state |-> "returned", args |-> a, error |-> "none",
                         brep1 |-> None, brep2 |-> None, written |-> << >>]
                   ELSE ExportBody(heap, a, lofted1, lofted2)
    /\ UNCHANGED << entry, heap, obj, ret, calls, plots, RHINO_AVAILABLE, spur,
                    spur2, svg, fig >>

(***************************************************************************)
(* gear_generator.py.                                                      *)
(***************************************************************************)
\* frame_count=32 of InvoluteGear.__init__
SpurFrameCount == 32

\* InvoluteGear(**a)
NewInvoluteGear(a) ==
    LET tooth_width == R(a.module)
        g == generate(a.teeth_number, tooth_width,
                      deg2rad(a.pressure_angle), R(a.backlash),
                      SpurFrameCount)
    IN  IF g.error # "none"
        THEN [state |-> "raised", args |-> a, error |-> g.error]
        ELSE [state |-> "gear", args |-> a,
              self |-> [module |-> R(a.module),
                        teeth_number |-> a.teeth_number,
                        pressure_angle |-> a.pressure_angle,
                        clearance |-> a.clearance,
                        backlash |-> R(a.backlash),
                        profile_shift |-> a.profile_shift,
                        tooth_width |-> tooth_width,
                        gear_poly |-> g.gear_poly,
                        pitch_radius |-> g.pitch_radius]]

\* The InvoluteGear arguments export_gears_only and main pass.
SpurGearArgs(a, teeth) ==
    [module |-> a.module, teeth_number |-> teeth,
     pressure_angle |-> a.pressure_angle, clearance |-> a.clearance,
     backlash |-> a.backlash, profile_shift |-> 0]

\* create_gear_patch(gear, hole_radius, facecolor): (patch, pitch radius)
create_gear_patch(gear, hole_radius, facecolor) ==
    [patch |-> [ring |-> gear.gear_poly, hole_radius |-> hole_radius,
                facecolor |-> facecolor],
     pitch_radius |-> gear.pitch_radius]

\* A patch as added to the axes: the transform is rotate(angle), then
\* translate(x, y); the angle is in units of pi.
Placed(patch, angle, x, y) ==
    [patch |-> patch, rotate |-> angle, translate |-> << x, y >>]

\* center_distance = gear1_obj.pitch_radius + gear2_obj.pitch_radius
ExportCenterDistance(pitch_radius1, pitch_radius2) ==
    RAdd(pitch_radius1, pitch_radius2)

\* rotation_angle = np.pi / teeth2, in units of pi
ExportRotationAngle(teeth2) == RDiv(One, R(teeth2))

\* export_gears_only(module, teeth1, teeth2, pressure_angle, clearance,
\*                   backlash, filename)
export_gears_only(a) ==
    LET gear1_obj == NewInvoluteGear(SpurGearArgs(a, a.teeth1))
    IN
    IF gear1_obj.state = "raised"
    THEN [state |-> "raised", args |-> a, error |-> gear1_obj.error,
          patches |-> << >>]
    ELSE
    LET gear1 == create_gear_patch(gear1_obj.self, R(3), "lightgray")
        added1 == Placed(gear1.patch, Zero, Zero, Zero)
        gear2_obj == NewInvoluteGear(SpurGearArgs(a, a.teeth2))
    IN
    IF gear2_obj.state = "raised"
    THEN [state |-> "raised", args |-> a, error |-> gear2_obj.error,
          patches |-> << added1 >>]
    ELSE IF a.teeth2 = 0
    THEN [state |-> "raised", args |-> a, error |-> "ZeroDivisionError",
          patches |-> << added1 >>]
    ELSE
    LET center_distance == ExportCenterDistance(gear1_obj.self.pitch_radius,
                                                gear2_obj.self.pitch_radius)
        rotation_angle == ExportRotationAngle(a.teeth2)
        gear2 == create_gear_patch(gear2_obj.self, Rat(3, 2), "darkgray")
    IN  [state |-> "returned", args |-> a,
         pitch_radius1 |-> gear1_obj.self.pitch_radius,
         pitch_radius2 |-> gear2_obj.self.pitch_radius,
         center_distance |-> center_distance,
         rotation_angle |-> rotation_angle,
         patches |-> << added1,
                        Placed(gear2.patch, rotation_angle,
                               center_distance, Zero) >>,
         saved |-> << a.filename >>]

\* center_distance = gear1_obj.pitch_radius + gear2_obj.pitch_radius
MainCenterDistance(pitch_radius1, pitch_radius2) ==
    RAdd(pitch_radius1, pitch_radius2)

\* A whole tooth pitch instead of half of one.
MainRotationWholeTooth(num_teeth2) == RDiv(R(2), R(num_teeth2))

\* rotation_angle = np.pi / num_teeth2, in units of pi
MainRotationAngle(num_teeth2) == RDiv(One, R(num_teeth2))

\* The interactive path of main (lines 221-298); a are the parsed
\* arguments.
main_figure(a) ==
    LET module == a.module
        pressure_angle == a.pressure_angle
        num_teeth1 == a.teeth1
        gear1_obj == NewInvoluteGear(
            [module |-> module, teeth_number |-> num_teeth1,
             pressure_angle |-> pressure_angle, clearance |-> a.clearance,
             backlash |-> a.backlash, profile_shift |-> 0])
    IN
    IF gear1_obj.state = "raised"
    THEN [state |-> "raised", args |-> a, error |-> gear1_obj.error,
          patches |-> << >>]
    ELSE
    LET gear1 == create_gear_patch(gear1_obj.self, R(3), "lightgray")
        added1 == Placed(gear1.patch, Zero, Zero, Zero)
        num_teeth2 == a.teeth2
        gear2_obj == NewInvoluteGear(
            [module |-> module, teeth_number |-> num_teeth2,
             pressure_angle |-> pressure_angle, clearance |-> a.clearance,
             backlash |-> a.backlash, profile_shift |-> 0])
    IN
    IF gear2_obj.state = "raised"
    THEN [state |-> "raised", args |-> a, error |-> gear2_obj.error,
          patches |-> << added1 >>]
    ELSE IF num_teeth2 = 0
    THEN [state |-> "raised", args |-> a, error |-> "ZeroDivisionError",
          patches |-> << added1 >>]
    ELSE
    LET center_distance == MainCenterDistance(gear1_obj.self.pitch_radius,
                                              gear2_obj.self.pitch_radius)
        rotation_angle == MainRotationAngle(num_teeth2)
        gear2 == create_gear_patch(gear2_obj.self, Rat(3, 2), "darkgray")
    IN  [state |-> "returned", args |-> a,
         pitch_radius1 |-> gear1_obj.self.pitch_radius,
         pitch_radius2 |-> gear2_obj.self.pitch_radius,
         center_distance |-> center_distance,
         rotation_angle |-> rotation_angle,
         patches |-> << added1,
                        Placed(gear2.patch, rotation_angle,
                               center_distance, Zero) >>,
         saved |-> IF a.save # "" /\ ~a.gears_only
                   THEN << a.save >> ELSE << >>]

\* The arguments main hands to export_gears_only (lines 210-218).
MainExportArgs(a) ==
    [module |-> a.module, teeth1 |-> a.teeth1, teeth2 |-> a.teeth2,
     pressure_angle |-> a.pressure_angle, clearance |-> a.clearance,
     backlash |-> a.backlash, filename |-> a.save]

\* gear = InvoluteGear(**a)
ConstructInvoluteGear(a) ==
    /\ spur = Unbound
    /\ spur' = NewInvoluteGear(a)
    /\ UNCHANGED << entry, heap, obj, ret, calls, plots, RHINO_AVAILABLE, exported,
                    spur2, svg, fig >>

\* gear2 = InvoluteGear(**a)
ConstructSecondInvoluteGear(a) ==
    /\ spur2 = Unbound
    /\ spur2' = NewInvoluteGear(a)
    /\ UNCHANGED << entry, heap, obj, ret, calls, plots, RHINO_AVAILABLE, exported,
                    spur, svg, fig >>

\* export_gears_only(**a)
ExportGearsOnly(a) ==
    /\ svg = Unbound
    /\ svg' = export_gears_only(a)
    /\ UNCHANGED << entry, heap, obj, ret, calls, plots, RHINO_AVAILABLE, exported,
                    spur, spur2, fig >>

\* main() of gear_generator.py with the parsed arguments a
Main(a) ==
    IF a.gears_only /\ a.save # ""
    THEN /\ svg = Unbound
         /\ svg' = export_gears_only(MainExportArgs(a))
         /\ UNCHANGED << entry, heap, obj, ret, calls, plots, RHINO_AVAILABLE,
                         exported, spur, spur2, fig >>
    ELSE /\ fig = Unbound
         /\ fig' = main_figure(a)
         /\ UNCHANGED << entry, heap, obj, ret, calls, plots, RHINO_AVAILABLE,
                         exported, spur, spur2, svg >>

(***************************************************************************)
(* Inputs of the specifications.                                           *)
(***************************************************************************)
\* Two gears that are used after construction.
UseArgs ==
    BevelArgs({5}, {4, 20}, {37, 53}, {15},
              {[pressure_angle |-> 20, clearance |-> Rat(1, 4),
                backlash |-> 0, profile_shift |-> 0, frame_count |-> 16]})

ExportArgs ==
    {[module |-> 5, teeth1 |-> 20, teeth2 |-> n, pressure_angle |-> 20,
      cone_angle |-> c, face_width |-> 15, clearance |-> Rat(1, 4),
      backlash |-> 0, filename |-> "out.3dm", frame_count |-> 16] :
        n \in {4, 20}, c \in {37, 53, 90}}

InvoluteArgs ==
    {[module |-> m, teeth_number |-> n, pressure_angle |-> p,
      clearance |-> Rat(1, 4), backlash |-> b, profile_shift |-> 0] :
        m \in {0, 1, 5}, n \in {0, 15, 20}, p \in {0, 20}, b \in {-1, 0, 1}}

SpurArgs ==
    {[module |-> m, teeth1 |-> n1, teeth2 |-> n2, pressure_angle |-> 20,
      clearance |-> Rat(1, 4), backlash |-> b, filename |-> "out.svg"] :
        m \in {1, 2}, n1 \in {15, 30}, n2 \in {0, 15, 30}, b \in {0, 1}}

MainArgs ==
    {[module |-> m, teeth1 |-> n1, teeth2 |-> n2, pressure_angle |-> 20,
      clearance |-> Rat(1, 4), backlash |-> b, save |-> f,
      gears_only |-> g, show |-> TRUE] :
        m \in {1, 2}, n1 \in {15, 30}, n2 \in {0, 15, 30}, b \in {0, 1},
        f \in {"", "out.svg"}, g \in BOOLEAN}

\* Two gears that are compared: the same geometry arguments with
\* different clearance and profile_shift, among them face widths that lose
\* sections.
PairSecondary ==
    {[pressure_angle |-> 20, clearance |-> c, backlash |-> 0,
      profile_shift |-> p, frame_count |-> 16] :
        c \in {Rat(1, 4), Rat(1, 2)}, p \in {0, 1}}

BevelPairArgs == BevelArgs({5}, {4, 20}, {53, 90}, {9, 15}, PairSecondary)

InvolutePairArgs ==
    {[module |-> m, teeth_number |-> n, pressure_angle |-> 20,
      clearance |-> c, backlash |-> b, profile_shift |-> p] :
        m \in {1, 5}, n \in {0, 15, 20}, b \in {0, 1},
        c \in {Rat(1, 4), Rat(1, 2)}, p \in {0, 1}}

(***************************************************************************)
(* Specification.  A run is one of seven uses of the two scripts:          *)
(*   construct  one BevelGear is constructed from any arguments and its    *)
(*              section builder is called with a section count;            *)
(*   involute   one InvoluteGear is constructed;                           *)
(*   use        two BevelGears are constructed, read, and drawn as main    *)
(*              draws them: visualize_bevel_gears(gear1, gear2);           *)
(*   export     export_bevel_gears is called;                              *)
(*   spur       export_gears_only and main of gear_generator.py are run;   *)
(*   bevels     two BevelGears are constructed, in either order;           *)
(*   involutes  two InvoluteGears are constructed, in either order.        *)
(***************************************************************************)
Entries == {"construct", "involute", "use", "export", "spur", "bevels",
            "involutes"}

Init ==
    /\ entry \in Entries
    /\ heap = << >>
    /\ obj = [s \in Slots |-> Unbound]
    /\ ret = Unbound
    /\ calls = << >>
    /\ plots = << >>
    /\ RHINO_AVAILABLE \in BOOLEAN
    /\ exported = Unbound
    /\ spur = Unbound
    /\ spur2 = Unbound
    /\ svg = Unbound
    /\ fig = Unbound

Next ==
    \/ /\ entry = "construct"
       /\ \E a \in CtorArgs : NewBevelGear(1, a)
    \/ /\ entry = "construct"
       /\ \E n \in 0..MaxSections : GenerateSections(1, n)
    \/ /\ entry = "involute"
       /\ \E a \in InvoluteArgs : ConstructInvoluteGear(a)
    \/ /\ entry = "use"
       /\ \E s \in Slots, a \in UseArgs : NewBevelGear(s, a)
    \/ /\ entry = "use"
       /\ \E s \in Slots : GetPoints(s)
    \/ /\ entry = "use"
       /\ Visualize(1, 2)
    \/ /\ entry = "export"
       /\ \E a \in ExportArgs, lofted1, lofted2 \in BOOLEAN :
              ExportBevelGears(a, lofted1, lofted2)
    \/ /\ entry = "spur"
       /\ \E a \in SpurArgs : ExportGearsOnly(a)
    \/ /\ entry = "spur"
       /\ \E a \in MainArgs : Main(a)
    \/ /\ entry = "bevels"
       /\ \E s \in Slots, a \in BevelPairArgs : NewBevelGear(s, a)
    \/ /\ entry = "involutes"
       /\ \E a \in InvolutePairArgs : ConstructInvoluteGear(a)
    \/ /\ entry = "involutes"
       /\ \E a \in InvolutePairArgs : ConstructSecondInvoluteGear(a)

Spec == Init /\ [][Next]_vars

(***************************************************************************)
(* Properties.                                                             *)
(***************************************************************************)
\* The apex distance of a gear constructed from the arguments a.
ArgPitchRadius(a) == Rat(a.module * a.teeth_number, 2)
ArgApex(a) == RDiv(ArgPitchRadius(a), sin(a.cone_angle))

\* The parameters the specification calls valid.
ValidParameters(a) ==
    /\ a.module > 0
    /\ a.teeth_number >= 1
    /\ a.pressure_angle > 0 /\ a.pressure_angle < 90
    /\ a.backlash >= 0

\* The scale of section i of num_sections, by the formula.
ExpectedScale(a, num_sections, i) ==
    RDiv(RSub(ArgApex(a), RMul(Rat(i, num_sections - 1), R(a.face_width))),
         ArgApex(a))

\* The section lists that exist: self.sections of the gears, and the list a
\* direct call returned.
Lists ==
    {[a |-> obj[s].args, n |-> NumSectionsDefault,
      sections |-> obj[s].self.sections] :
        s \in {x \in Slots : obj[x].state = "gear"}}
    \cup (IF ret.state = "returned"
          THEN {[a |-> obj[ret.gear].args, n |-> ret.num_sections,
                 sections |-> ret.sections]}
          ELSE {})

\* C1: constructing a BevelGear (its other parameters valid, its cone angle
\* inside (0, 180)) whose face_width is at or above its apex distance raises
\* InvalidConfiguration, and does so before any section is computed.
C1_WideFaceRaises ==
    \A s \in Slots :
        (/\ obj[s] # Unbound
         /\ ValidParameters(obj[s].args)
         /\ obj[s].args.frame_count >= 1
         /\ RLess(Zero, sin(obj[s].args.cone_angle))
         /\ RLeq(ArgApex(obj[s].args), R(obj[s].args.face_width)))
        => /\ obj[s].state = "raised"
           /\ obj[s].error = "InvalidConfiguration"
           /\ obj[s].computed = 0

C3_KeptIffAboveThreshold ==
    \A L \in Lists :
        LET kept == {i \in 0..(L.n - 1) :
                        RLess(Rat(1, 10), ExpectedScale(L.a, L.n, i))}
            len == Len(L.sections)
        IN  /\ len = Cardinality(kept)
            /\ \A k \in 1..len :
                   \E i \in kept :
                       /\ Cardinality({j \in kept : j < i}) = k - 1
                       /\ L.sections[k].scale = ExpectedScale(L.a, L.n, i)
            /\ L.a.face_width >= 0 => kept = 0..(len - 1)

\* A list that lost its last section to a scale of exactly 0.1.
C3_Witness ==
    \E L \in Lists :
        /\ Len(L.sections) = L.n - 1
        /\ L.n >= 2
        /\ ExpectedScale(L.a, L.n, L.n - 1) = Rat(1, 10)

\* C4: with a positive apex distance the first section has z = 0 and scale
\* 1; and a list that kept its last index has there z = face_width, scale =
\* (apex_distance - face_width) / apex_distance and radius = pitch_radius
\* times that scale.
C4_EndSections ==
    \A L \in Lists :
        RLess(Zero, ArgApex(L.a)) =>
            /\ L.n >= 1 =>
                   /\ Len(L.sections) >= 1
                   /\ L.sections[1].z = Zero
                   /\ L.sections[1].scale = One
            /\ (L.n >= 2 /\ Len(L.sections) = L.n) =>
                   LET last == L.sections[L.n]
                       small == RDiv(RSub(ArgApex(L.a), R(L.a.face_width)),
                                     ArgApex(L.a))
                   IN  /\ last.z = R(L.a.face_width)
                       /\ last.scale = small
                       /\ last.radius = RMul(ArgPitchRadius(L.a), small)

C4_Witness ==
    \E L \in Lists :
        /\ RLess(Zero, ArgApex(L.a))
        /\ L.n = NumSectionsDefault
        /\ Len(L.sections) = L.n
        /\ L.a.face_width > 0

\* C7: the pitch radius of every constructed gear, BevelGear or
\* InvoluteGear, is module * teeth_number / 2, whatever its other
\* arguments are.
C7_PitchRadius ==
    /\ \A s \in Slots :
           obj[s].state = "gear" =>
               obj[s].self.pitch_radius = ArgPitchRadius(obj[s].args)
    /\ spur.state = "gear" =>
           spur.self.pitch_radius = ArgPitchRadius(spur.args)

\* A gear of module 5 with 20 teeth and a backlash: pitch radius 50.
C7_Witness ==
    \E s \in Slots :
        /\ obj[s].state = "gear"
        /\ obj[s].args.module = 5
        /\ obj[s].args.teeth_number = 20
        /\ obj[s].args.backlash # 0
        /\ obj[s].self.pitch_radius = R(50)

\* C8: constructing an InvoluteGear or a BevelGear with an invalid
\* parameter raises InvalidParameter, so that no gear object comes back.
C8_InvalidParameterRaises ==
    /\ \A s \in Slots :
           (/\ obj[s] # Unbound
            /\ ~(ValidParameters(obj[s].args)
                 /\ obj[s].args.frame_count >= 1))
           => /\ obj[s].state = "raised"
              /\ obj[s].error = "InvalidParameter"
    /\ (spur # Unbound /\ ~ValidParameters(spur.args))
       => /\ spur.state = "raised"
          /\ spur.error = "InvalidParameter"

\* C9: _generate_sections with a section count below 2 raises
\* InvalidConfiguration before any section is computed.
C9_FewSectionsRaise ==
    (ret # Unbound /\ ret.num_sections < 2)
    => /\ ret.state = "raised"
       /\ ret.error = "InvalidConfiguration"
       /\ ret.computed = 0

\* The cone apex of a gear in its own frame: on the stacking axis, at the
\* axial offset where the scale 1 - z / apex_distance is 0.
Apex(gear) ==
    << Zero, Zero, ApexDistance(gear.pitch_radius, gear.cone_angle) >>

ZAxis == << Zero, Zero, One >>

Dot(v, w) ==
    RAdd(RAdd(RMul(v[1], w[1]), RMul(v[2], w[2])), RMul(v[3], w[3]))

Untransformed(arr) == arr.rot = Identity /\ arr.shift = NoShift

\* x is gear B as placed (an array or a brep) beside the untransformed
\* gear A: B's apex is at A's apex, and B's axis is orthogonal to A's.
ApexesCoincide(x, gearA, gearB) ==
    /\ x.rot = RotY90
    /\ x.shift = << ApexDistance(gearA.pitch_radius, gearA.cone_angle),
                    Zero, Zero >>
    /\ Image(x, Apex(gearB)) = Apex(gearA)
    /\ Dot(MatVec(x.rot, ZAxis), ZAxis) = Zero

\* C5: after the bevel placement (a rotation by 90 degrees about Y, then a
\* translation by gear A's apex distance) gear B's cone apex is at gear A's
\* cone apex and the axes of the two gears are orthogonal, gear A being
\* left untransformed; visualize_bevel_gears and export_bevel_gears place
\* gear B the same way.
C5_ApexesCoincide ==
    /\ \A f \in 1..Len(plots) :
           /\ \A k \in 1..Len(plots[f].blue) : Untransformed(plots[f].blue[k])
           /\ \A k \in 1..Len(plots[f].red) :
                  ApexesCoincide(plots[f].red[k], obj[plots[f].gear1].self,
                                 obj[plots[f].gear2].self)
    /\ (exported # Unbound /\ exported.brep2 # None)
       => ApexesCoincide(exported.brep2, exported.gear1, exported.gear2)
    /\ (exported # Unbound /\ exported.brep1 # None)
       => Untransformed(exported.brep1)

\* C6: the spur placement has center distance pitch_radius1 +
\* pitch_radius2 and rotation pi / teeth2, is applied to the patch of gear 2
\* while the patch of gear 1 is added untransformed, and is the same in
\* export_gears_only and in the interactive path of main.
SpurPlacement(r) ==
    r.state = "returned" =>
        /\ r.center_distance = RAdd(r.pitch_radius1, r.pitch_radius2)
        /\ r.rotation_angle = Rat(1, r.args.teeth2)
        /\ Len(r.patches) = 2
        /\ r.patches[1].patch.ring.teeth_count = r.args.teeth1
        /\ r.patches[1].rotate = Zero
        /\ r.patches[1].translate = << Zero, Zero >>
        /\ r.patches[2].patch.ring.teeth_count = r.args.teeth2
        /\ r.patches[2].rotate = r.rotation_angle
        /\ r.patches[2].translate = << r.center_distance, Zero >>

SameGears(a, b) ==
    /\ a.module = b.module
    /\ a.teeth1 = b.teeth1
    /\ a.teeth2 = b.teeth2
    /\ a.pressure_angle = b.pressure_angle
    /\ a.clearance = b.clearance
    /\ a.backlash = b.backlash

C6_SpurPlacement ==
    /\ SpurPlacement(svg)
    /\ SpurPlacement(fig)
    /\ (svg # Unbound /\ fig # Unbound /\ SameGears(svg.args, fig.args))
       => /\ svg.state = fig.state
          /\ svg.patches = fig.patches
          /\ svg.state = "returned" =>
                 /\ svg.center_distance = fig.center_distance
                 /\ svg.rotation_angle = fig.rotation_angle

\* Both paths have placed the same two gears of different sizes.
C6_Witness ==
    /\ svg.state = "returned"
    /\ fig.state = "returned"
    /\ SameGears(svg.args, fig.args)
    /\ svg.args.teeth1 # svg.args.teeth2
    /\ svg.args.backlash # 0

\* A gear's sections with the arrays they hold.
Derived(s) ==
    [k \in 1..Len(obj[s].self.sections) |->
        [points |-> heap[obj[s].self.sections[k].points],
         z |-> obj[s].self.sections[k].z,
         scale |-> obj[s].self.sections[k].scale,
         radius |-> obj[s].self.sections[k].radius]]

Returned(c) == [k \in 1..Len(c.arrays) |-> heap[c.arrays[k]]]

\* C10: a gear's sections ('points', 'z', 'scale', 'radius') and its
\* pitch_radius are the same after every get_3d_points and
\* visualize_bevel_gears call as before it, and the get_3d_points calls on a
\* gear return equal lists.
C10_DerivedDataImmutable ==
    /\ [][\A s \in Slots :
            obj[s].state = "gear" =>
                /\ obj'[s].state = "gear"
                /\ Derived(s)' = Derived(s)
                /\ obj'[s].self.pitch_radius = obj[s].self.pitch_radius]_vars
    /\ [](\A i, j \in 1..Len(calls) :
            calls[i].gear = calls[j].gear =>
                Returned(calls[i]) = Returned(calls[j]))
    /\ [](\A i \in 1..Len(calls), f \in 1..Len(plots) :
            calls[i].gear = plots[f].gear1 =>
                Returned(calls[i]) = plots[f].blue)

\* A gear was read twice and drawn as the second, placed gear.
C10_Witness ==
    /\ Len(calls) = 2
    /\ calls[1].gear = calls[2].gear
    /\ Len(plots) = 1
    /\ plots[1].gear2 = calls[1].gear
    /\ Len(obj[calls[1].gear].self.sections) >= 2

C12_SectionRequests ==
    \A L \in Lists :
        \A k \in 1..Len(L.sections) :
            LET sec == L.sections[k]
                req == heap[sec.points].ring
            IN  /\ req.teeth_count = L.a.teeth_number
                /\ req.pressure_angle = Rat(L.a.pressure_angle, 180)
                /\ req.backlash = R(L.a.backlash)
                /\ req.frame_count = L.a.frame_count
                /\ req.tooth_width = RMul(R(L.a.module), sec.scale)
                /\ sec.radius = RMul(ArgPitchRadius(L.a), sec.scale)
                /\ \A j \in 1..Len(L.sections) :
                       LET other == heap[L.sections[j].points].ring
                       IN  /\ other.teeth_count = req.teeth_count
                           /\ other.pressure_angle = req.pressure_angle
                           /\ other.backlash = req.backlash
                           /\ other.frame_count = req.frame_count

\* A list of sections of different scales of a gear with a backlash.
C12_Witness ==
    \E L \in Lists :
        /\ Len(L.sections) >= 3
        /\ L.a.backlash # 0
        /\ L.sections[2].scale # One
        /\ L.sections[3].scale # L.sections[2].scale
        /\ heap[L.sections[3].points].ring.tooth_width
               # heap[L.sections[2].points].ring.tooth_width

\* The arguments a and b differ in clearance and profile_shift at most.
SameButClearanceAndShift(a, b) ==
    [a EXCEPT !.clearance = b.clearance,
              !.profile_shift = b.profile_shift] = b

\* C13: two BevelGears, or two InvoluteGears, whose arguments differ in
\* clearance and profile_shift at most end the same way and have the same
\* pitch_radius, the same profile requests and the same sections; each
\* gear stores the two values it was given.
C13_ClearanceShiftInert ==
    /\ \A s, t \in Slots :
           (/\ obj[s] # Unbound
            /\ obj[t] # Unbound
            /\ SameButClearanceAndShift(obj[s].args, obj[t].args))
           => /\ obj[s].state = obj[t].state
              /\ obj[s].state = "raised" => obj[s].error = obj[t].error
              /\ obj[s].state = "gear" =>
                     /\ obj[s].self.pitch_radius = obj[t].self.pitch_radius
                     /\ Derived(s) = Derived(t)
                     /\ obj[s].self.clearance = obj[s].args.clearance
                     /\ obj[s].self.profile_shift = obj[s].args.profile_shift
    /\ (/\ spur # Unbound
        /\ spur2 # Unbound
        /\ SameButClearanceAndShift(spur.args, spur2.args))
       => /\ spur.state = spur2.state
          /\ spur.state = "raised" => spur.error = spur2.error
          /\ spur.state = "gear" =>
                 /\ spur.self.gear_poly = spur2.self.gear_poly
                 /\ spur.self.pitch_radius = spur2.self.pitch_radius
                 /\ spur.self.clearance = spur.args.clearance
                 /\ spur.self.profile_shift = spur.args.profile_shift
                 /\ spur2.self.clearance = spur2.args.clearance
                 /\ spur2.self.profile_shift = spur2.args.profile_shift

\* Two gears that lost a section, given different clearances and different
\* profile shifts.
C13_Witness ==
    /\ obj[1].state = "gear"
    /\ obj[2].state = "gear"
    /\ SameButClearanceAndShift(obj[1].args, obj[2].args)
    /\ obj[1].args.clearance # obj[2].args.clearance
    /\ obj[1].args.profile_shift # obj[2].args.profile_shift
    /\ Len(obj[1].self.sections) >= 2
    /\ Len(obj[1].self.sections) < NumSectionsDefault

=============================================================================
